---- MODULE Spec2Model ----
(***************************************************************************)
(* A model of scripts/generate_data.py: the identifier, timestamp and      *)
(* amount generators, the record factory with its five fault variants,     *)
(* and the run of generate_transactions (generation loop, duplicate loop,  *)
(* CSV write).                                                             *)
(*                                                                         *)
(* Representation.  Strings are TLA+ strings.  A datetime is a record      *)
(* [day, sec, usec]: days since 1970-01-01, second of the day, microsecond.*)
(* An amount is an integer number of cents (the code rounds every amount   *)
(* to 2 decimals); the value before rounding is kept in thousandths.       *)
(* random.random() returns f / RandRes for a numerator f in 0..RandRes-1.  *)
(* Every function that reads the global random source takes the outcomes   *)
(* of its draws as an explicit argument.                                   *)
(***************************************************************************)
EXTENDS Integers, Sequences, FiniteSets, TLC

VARIABLES
    pc,                 \* position of the run in __main__ / generate_transactions
    NUM_TRANSACTIONS,   \* the configured record count
    now,                \* the wall clock read by datetime.now()
    rng,                \* state of the global random source
    base_date,          \* generate_transactions: base_date
    transactions,       \* generate_transactions: transactions
    i,                  \* generation loop index
    num_duplicates,     \* generate_transactions: num_duplicates
    picks,              \* positions returned by random.choice in the duplicate loop
    file,               \* the destination: "absent", "open", "closed"
    output,             \* rows handed to the destination so far
    failed_at,          \* the step whose exception ended the run, or "none"
    call,               \* a single function call: its name, arguments and draws
    ret                 \* [done, val]: whether that call returned, and its value

vars == <<pc, NUM_TRANSACTIONS, now, rng, base_date, transactions, i,
          num_duplicates, picks, file, output, failed_at, call, ret>>

runVars == <<pc, NUM_TRANSACTIONS, now, rng, base_date, transactions, i,
             num_duplicates, picks, file, output, failed_at>>

(***************************************************************************)
(* Bounds of the model                                                     *)
(***************************************************************************)
MaxN == 100             \* NUM_TRANSACTIONS ranges over 0..MaxN
MaxSeed == 2            \* seeds of the random source range over 0..MaxSeed
MaxIndex == 3           \* indices of single factory calls range over 1..MaxIndex
Limb == 8192            \* random.random() has resolution 1 / (Limb * Limb)
StepUsec == 1           \* microseconds of wall clock that pass per generated record
PickEdge == 6           \* random.choice is followed to this many positions from either
                        \* end of the generated records, and to every duplicate

(***************************************************************************)
(* Test data (lines 21-38)                                                 *)
(***************************************************************************)
RECURSIVE zfill(_, _)
zfill(s, width) == IF Len(s) >= width THEN s ELSE zfill("0" \o s, width)

str(n) == ToString(n)

NumAccounts == 500

ACCOUNT_IDS == [k \in 1..NumAccounts |-> "ACC" \o zfill(str(k), 3)]

CURRENCIES == <<"USD", "EUR", "GBP", "JPY", "CNY">>

TRANSACTION_TYPES == <<"DEBIT", "CREDIT", "TRANSFER", "FEE", "DIVIDEND", "INTEREST">>

CATEGORIES == <<"SALARY", "PURCHASE", "TRANSFER", "INVESTMENT", "FEE", "DIVIDEND",
                "INTEREST", "REFUND", "PAYMENT", "WITHDRAWAL">>

STATUSES == <<"COMPLETED", "PENDING", "FAILED", "REVERSED">>

DESCRIPTIONS == <<"Regular monthly payment", "Online purchase", "ATM withdrawal",
                  "Wire transfer", "Direct deposit", "Card payment",
                  "Investment transaction", "Fee charge", "Interest payment",
                  "Dividend payment">>

INVALID_TYPES == <<"missing_id", "negative_amount", "future_date",
                   "invalid_currency", "missing_account">>

fieldnames == <<"transaction_id", "account_id", "timestamp", "amount",
                "currency", "type", "category", "description", "status">>

(***************************************************************************)
(* datetime, timedelta, strftime                                           *)
(***************************************************************************)
SecondsPerDay == 86400

\* timedelta(days=, hours=, minutes=, seconds=), normalised to days and seconds
timedelta(days, hours, minutes, seconds) ==
    LET total == hours * 3600 + minutes * 60 + seconds
    IN  [days |-> days + total \div SecondsPerDay, seconds |-> total % SecondsPerDay]

\* datetime - timedelta
DtSub(dt, td) ==
    LET s == dt.sec - td.seconds
    IN  [day  |-> dt.day - td.days - (IF s < 0 THEN 1 ELSE 0),
         sec  |-> s % SecondsPerDay,
         usec |-> dt.usec]

\* A datetime + timedelta that loses the days of the timedelta
DtAdd_seconds_only(dt, td) ==
    LET s == dt.sec + td.seconds
    IN  [day  |-> dt.day + s \div SecondsPerDay,
         sec  |-> s % SecondsPerDay,
         usec |-> dt.usec]

\* datetime + timedelta
DtAdd(dt, td) ==
    LET s == dt.sec + td.seconds
    IN  [day  |-> dt.day + td.days + s \div SecondsPerDay,
         sec  |-> s % SecondsPerDay,
         usec |-> dt.usec]

\* The proleptic Gregorian calendar of datetime: day number -> <<year, month, day>>
civil_from_days(z0) ==
    LET z   == z0 + 719468
        era == z \div 146097
        doe == z - era * 146097
        yoe == (doe - doe \div 1460 + doe \div 36524 - doe \div 146096) \div 365
        doy == doe - (365 * yoe + yoe \div 4 - yoe \div 100)
        mp  == (5 * doy + 2) \div 153
        d   == doy - (153 * mp + 2) \div 5 + 1
        m   == IF mp < 10 THEN mp + 3 ELSE mp - 9
        y   == yoe + era * 400 + (IF m <= 2 THEN 1 ELSE 0)
    IN  <<y, m, d>>

\* <<year, month, day>> -> day number
days_from_civil(y0, m, d) ==
    LET y   == IF m <= 2 THEN y0 - 1 ELSE y0
        era == y \div 400
        yoe == y - era * 400
        doy == (153 * (IF m > 2 THEN m - 3 ELSE m + 9) + 2) \div 5 + d - 1
        doe == yoe * 365 + yoe \div 4 - yoe \div 100 + doy
    IN  era * 146097 + doe - 719468

\* dt.strftime('%Y%m%d')
strftime_Ymd(dt) ==
    LET c == civil_from_days(dt.day)
    IN  zfill(str(c[1]), 4) \o zfill(str(c[2]), 2) \o zfill(str(c[3]), 2)

\* dt.strftime('%Y-%m-%d %H:%M:%S'): the microseconds are dropped
strftime(dt) ==
    LET c == civil_from_days(dt.day)
    IN  zfill(str(c[1]), 4) \o "-" \o zfill(str(c[2]), 2) \o "-" \o zfill(str(c[3]), 2)
        \o " " \o zfill(str(dt.sec \div 3600), 2)
        \o ":" \o zfill(str((dt.sec % 3600) \div 60), 2)
        \o ":" \o zfill(str(dt.sec % 60), 2)

(***************************************************************************)
(* The random source                                                       *)
(***************************************************************************)
RandRes == Limb * Limb

\* floor(a * f / RandRes) for 0 <= f < RandRes, without leaving 32 bits
MulDiv(a, f) ==
    LET ah == a \div Limb
        al == a % Limb
        fh == f \div Limb
        fl == f % Limb
    IN  ah * fh + (ah * fl + al * fh + (al * fl) \div Limb) \div Limb

\* random.uniform(a, b) = a + (b - a) * random.random(), in thousandths
uniform(a, b, f) == a * 1000 + MulDiv((b - a) * 1000, f)

\* round(x, 2) of a value in thousandths, in cents (ties to even)
round2(x) ==
    LET q == x \div 10
        r == x % 10
    IN  IF r > 5 \/ (r = 5 /\ q % 2 = 1) THEN q + 1 ELSE q

(***************************************************************************)
(* The generators (lines 40-66)                                            *)
(***************************************************************************)
\* An identifier that leaves the index out
generate_transaction_id_date_only(index, clock) ==
    "TXN" \o strftime_Ymd(clock)

\* clock is the value datetime.now() returns inside the call
generate_transaction_id(index, clock) ==
    "TXN" \o strftime_Ymd(clock) \o zfill(str(index), 8)

\* A generate_timestamp that adds the offset to the base moment
generate_timestamp_forward(base, days_back, d) ==
    LET delta == timedelta(d.days, d.hours, d.minutes, d.seconds)
    IN  strftime(DtAdd(base, delta))

\* d.days, d.hours, d.minutes, d.seconds are the four randint outcomes
generate_timestamp(base, days_back, d) ==
    LET delta == timedelta(d.days, d.hours, d.minutes, d.seconds)
    IN  strftime(DtSub(base, delta))

\* A generate_amount whose tier tests are taken in the wrong order
generate_amount_swapped(rand, f) ==
    IF rand * 10 < 7 * RandRes
    THEN round2(uniform(10000, 100000, f))
    ELSE IF rand * 10 < 9 * RandRes
         THEN round2(uniform(1000, 10000, f))
         ELSE round2(uniform(10, 1000, f))

\* rand is the numerator of the tier draw, f that of the draw inside uniform
generate_amount(rand, f) ==
    IF rand * 10 < 7 * RandRes
    THEN round2(uniform(10, 1000, f))
    ELSE IF rand * 10 < 9 * RandRes
         THEN round2(uniform(1000, 10000, f))
         ELSE round2(uniform(10000, 100000, f))

\* random.random() < 0.05
should_create_invalid_record(rand) == rand * 20 < RandRes

(***************************************************************************)
(* The record factory (lines 68-147)                                       *)
(***************************************************************************)
DaysBack == 90

MaxFutureDays == 30

create_invalid_transaction(index, base, clock, d) ==
    LET invalid_type == INVALID_TYPES[d.kind]
    IN  IF invalid_type = "missing_id" THEN
            [transaction_id |-> "",
             account_id     |-> ACCOUNT_IDS[d.acct],
             timestamp      |-> generate_timestamp(base, DaysBack, d),
             amount         |-> generate_amount(d.rand, d.unif),
             currency       |-> CURRENCIES[d.cur],
             type           |-> TRANSACTION_TYPES[d.typ],
             category       |-> CATEGORIES[d.cat],
             description    |-> DESCRIPTIONS[d.desc],
             status         |-> STATUSES[d.stat]]
        ELSE IF invalid_type = "negative_amount" THEN
            [transaction_id |-> generate_transaction_id(index, clock),
             account_id     |-> ACCOUNT_IDS[d.acct],
             timestamp      |-> generate_timestamp(base, DaysBack, d),
             amount         |-> 0 - generate_amount(d.rand, d.unif),
             currency       |-> CURRENCIES[d.cur],
             type           |-> TRANSACTION_TYPES[d.typ],
             category       |-> CATEGORIES[d.cat],
             description    |-> DESCRIPTIONS[d.desc],
             status         |-> STATUSES[d.stat]]
        ELSE IF invalid_type = "future_date" THEN
            LET future_date == DtAdd(base, timedelta(d.fut, 0, 0, 0))
            IN
            [transaction_id |-> generate_transaction_id(index, clock),
             account_id     |-> ACCOUNT_IDS[d.acct],
             timestamp      |-> strftime(future_date),
             amount         |-> generate_amount(d.rand, d.unif),
             currency       |-> CURRENCIES[d.cur],
             type           |-> TRANSACTION_TYPES[d.typ],
             category       |-> CATEGORIES[d.cat],
             description    |-> DESCRIPTIONS[d.desc],
             status         |-> STATUSES[d.stat]]
        ELSE IF invalid_type = "invalid_currency" THEN
            [transaction_id |-> generate_transaction_id(index, clock),
             account_id     |-> ACCOUNT_IDS[d.acct],
             timestamp      |-> generate_timestamp(base, DaysBack, d),
             amount         |-> generate_amount(d.rand, d.unif),
             currency       |-> "XXX",
             type           |-> TRANSACTION_TYPES[d.typ],
             category       |-> CATEGORIES[d.cat],
             description    |-> DESCRIPTIONS[d.desc],
             status         |-> STATUSES[d.stat]]
        ELSE
            [transaction_id |-> generate_transaction_id(index, clock),
             account_id     |-> "",
             timestamp      |-> generate_timestamp(base, DaysBack, d),
             amount         |-> generate_amount(d.rand, d.unif),
             currency       |-> CURRENCIES[d.cur],
             type           |-> TRANSACTION_TYPES[d.typ],
             category       |-> CATEGORIES[d.cat],
             description    |-> DESCRIPTIONS[d.desc],
             status         |-> STATUSES[d.stat]]

create_valid_transaction(index, base, clock, d) ==
    [transaction_id |-> generate_transaction_id(index, clock),
     account_id     |-> ACCOUNT_IDS[d.acct],
     timestamp      |-> generate_timestamp(base, DaysBack, d),
     amount         |-> generate_amount(d.rand, d.unif),
     currency       |-> CURRENCIES[d.cur],
     type           |-> TRANSACTION_TYPES[d.typ],
     category       |-> CATEGORIES[d.cat],
     description    |-> DESCRIPTIONS[d.desc],
     status         |-> STATUSES[d.stat]]

(***************************************************************************)
(* Single calls of the generators and of the factory.  Init draws the      *)
(* arguments and the outcomes of the random draws; one action per function *)
(* applies it.                                                             *)
(***************************************************************************)
NoDate == [day |-> 0, sec |-> 0, usec |-> 0]

\* Base moments: 2026-11-02 00:00:00.000000, 2024-03-30 23:59:59.999999 (the
\* lookback crosses 29 February and the turn of the year), 2025-01-01 12:00:00.000001.
\* clock is the moment generate_transaction_id reads: the base moment or later.
BaseSamples ==
    { [base  |-> [day |-> 20759, sec |-> 0, usec |-> 0],
       clock |-> [day |-> 20759, sec |-> 0, usec |-> 7]],
      [base  |-> [day |-> 19812, sec |-> 86399, usec |-> 999999],
       clock |-> [day |-> 19813, sec |-> 0, usec |-> 3]],
      [base  |-> [day |-> 20089, sec |-> 43200, usec |-> 1],
       clock |-> [day |-> 20089, sec |-> 43201, usec |-> 0]] }

\* The least numerator f with f / RandRes >= tenths / 10
TierEdge(tenths) == (tenths * RandRes + 9) \div 10

TierSamples == {0, TierEdge(7) - 1, TierEdge(7), TierEdge(9) - 1, TierEdge(9), RandRes - 1}

UnifSamples == {0, RandRes \div 2, RandRes - 1}

ClockSamples == {<<0, 0, 0>>, <<0, 0, 1>>, <<23, 59, 59>>}

EnumSamples ==
    { [typ |-> 1, cat |-> 1, desc |-> 1, stat |-> 1],
      [typ |-> Len(TRANSACTION_TYPES), cat |-> Len(CATEGORIES),
       desc |-> Len(DESCRIPTIONS), stat |-> Len(STATUSES)] }

\* The outcomes of the draws of one factory call, for a fault kind and lookback
DrawSamples(kinds, days_back) ==
    { [kind |-> k, acct |-> a, days |-> dd, hours |-> c[1], minutes |-> c[2],
       seconds |-> c[3], rand |-> r, unif |-> u, cur |-> cu, typ |-> e.typ,
       cat |-> e.cat, desc |-> e.desc, stat |-> e.stat, fut |-> fu] :
      k \in kinds, a \in {1, NumAccounts}, dd \in {0, days_back}, c \in ClockSamples,
      r \in TierSamples, u \in UnifSamples, cu \in {1, Len(CURRENCIES)},
      e \in EnumSamples, fu \in {1, MaxFutureDays} }

FactoryCalls(fn, kinds) ==
    { [fn |-> fn, index |-> ix, base |-> b.base, clock |-> b.clock,
       days_back |-> DaysBack, d |-> d] :
      ix \in {1, MaxIndex}, b \in BaseSamples,
      d \in { x \in DrawSamples(kinds, DaysBack) :
                x.fut = 1 \/ INVALID_TYPES[x.kind] = "future_date" } }

TimestampCalls ==
    { [fn |-> "generate_timestamp", index |-> 1, base |-> b.base, clock |-> b.clock,
       days_back |-> w,
       d |-> [kind |-> 1, acct |-> 1, days |-> dd, hours |-> h, minutes |-> m,
              seconds |-> s, rand |-> 0, unif |-> 0, cur |-> 1, typ |-> 1,
              cat |-> 1, desc |-> 1, stat |-> 1, fut |-> 1]] :
      b \in BaseSamples, w \in {0, 1, DaysBack}, dd \in {0, 1, DaysBack},
      h \in {0, 23}, m \in {0, 59}, s \in {0, 59} }

AmountCalls ==
    { [fn |-> "generate_amount", index |-> 1, base |-> NoDate, clock |-> NoDate,
       days_back |-> 0,
       d |-> [kind |-> 1, acct |-> 1, days |-> 0, hours |-> 0, minutes |-> 0,
              seconds |-> 0, rand |-> r, unif |-> u, cur |-> 1, typ |-> 1,
              cat |-> 1, desc |-> 1, stat |-> 1, fut |-> 1]] :
      r \in TierSamples,
      u \in (0..3) \cup {RandRes \div 2} \cup ((RandRes - 4)..(RandRes - 1)) }

Idle ==
    /\ pc = "idle"
    /\ NUM_TRANSACTIONS = 0
    /\ now = NoDate
    /\ rng = 0
    /\ base_date = NoDate
    /\ transactions = <<>>
    /\ i = 0
    /\ num_duplicates = 0
    /\ picks = <<>>
    /\ file = "absent"
    /\ output = <<>>
    /\ failed_at = "none"

InitCall ==
    /\ Idle
    /\ call \in FactoryCalls("create_valid_transaction", {1})
                \cup FactoryCalls("create_invalid_transaction", 1..Len(INVALID_TYPES))
                \cup { c \in TimestampCalls : c.d.days <= c.days_back }
                \cup AmountCalls
    /\ ret = [done |-> FALSE]

CallValid ==
    /\ call.fn = "create_valid_transaction"
    /\ ~ret.done
    /\ ret' = [done |-> TRUE,
               val  |-> create_valid_transaction(call.index, call.base, call.clock, call.d)]
    /\ UNCHANGED <<runVars, call>>

CallInvalid ==
    /\ call.fn = "create_invalid_transaction"
    /\ ~ret.done
    /\ ret' = [done |-> TRUE,
               val  |-> create_invalid_transaction(call.index, call.base, call.clock, call.d)]
    /\ UNCHANGED <<runVars, call>>

CallTimestamp ==
    /\ call.fn = "generate_timestamp"
    /\ ~ret.done
    /\ ret' = [done |-> TRUE,
               val  |-> generate_timestamp(call.base, call.days_back, call.d)]
    /\ UNCHANGED <<runVars, call>>

CallAmount ==
    /\ call.fn = "generate_amount"
    /\ ~ret.done
    /\ ret' = [done |-> TRUE, val |-> generate_amount(call.d.rand, call.d.unif)]
    /\ UNCHANGED <<runVars, call>>

NextCall == CallValid \/ CallInvalid \/ CallTimestamp \/ CallAmount

SpecCall == InitCall /\ [][NextCall]_vars

(***************************************************************************)
(* The run: __main__ and generate_transactions (lines 149-208)             *)
(*                                                                         *)
(* In the generation loop the global random source is a deterministic      *)
(* generator started from a seed: every draw of a record is read off its   *)
(* state.  In the duplicate loop random.choice may return any position;    *)
(* the model follows it to the positions PickSamples names.                *)
(***************************************************************************)
\* One step of the generator behind the random module
Lcg(s) == (s * 25173 + 13849) % 65536

\* The state the generator starts from, for seed k
SeedState(k) == (k * 54226 + 241) % 65536

RECURSIVE RngAt(_, _)
RngAt(s, k) == IF k = 0 THEN s ELSE RngAt(Lcg(s), k - 1)

\* A draw below n read off generator state s
randbelow(s, n) == (s * n) \div 65536

\* The numerator of random.random() read off generator state s
Fraction(s) == s * (RandRes \div 65536)

\* The draw that decides whether the next record is faulted
InvalidDraw(s) == Fraction(RngAt(s, 1))

\* The draws of the factory call that follows
FactoryDraws(s) ==
    [kind    |-> 1 + randbelow(RngAt(s, 2), Len(INVALID_TYPES)),
     acct    |-> 1 + randbelow(RngAt(s, 3), NumAccounts),
     days    |-> randbelow(RngAt(s, 4), DaysBack + 1),
     hours   |-> randbelow(RngAt(s, 5), 24),
     minutes |-> randbelow(RngAt(s, 6), 60),
     seconds |-> randbelow(RngAt(s, 7), 60),
     rand    |-> Fraction(RngAt(s, 8)),
     unif    |-> Fraction(RngAt(s, 9)),
     cur     |-> 1 + randbelow(RngAt(s, 10), Len(CURRENCIES)),
     typ     |-> 1 + randbelow(RngAt(s, 11), Len(TRANSACTION_TYPES)),
     cat     |-> 1 + randbelow(RngAt(s, 12), Len(CATEGORIES)),
     desc    |-> 1 + randbelow(RngAt(s, 13), Len(DESCRIPTIONS)),
     stat    |-> 1 + randbelow(RngAt(s, 14), Len(STATUSES)),
     fut     |-> 1 + randbelow(RngAt(s, 15), MaxFutureDays)]

\* The wall clock us microseconds later
Advance(dt, us) ==
    LET u == dt.usec + us
        s == dt.sec + u \div 1000000
    IN  [day |-> dt.day + s \div SecondsPerDay, sec |-> s % SecondsPerDay,
         usec |-> u % 1000000]

\* Moments at which a run starts: 2026-11-02 09:00:00.250000, and
\* 2024-03-30 23:59:59.999998, so late that midnight passes during generation
StartTimes ==
    { [day |-> 20759, sec |-> 32400, usec |-> 250000],
      [day |-> 19812, sec |-> SecondsPerDay - 1, usec |-> 999998] }

\* A duplicate count that rounds to the nearest integer
duplicate_count_rounded(n) == (n * 2 + 50) \div 100

\* A duplicate count that is never less than 1
duplicate_count_at_least_one(n) == IF n * 2 < 100 THEN 1 ELSE (n * 2) \div 100

\* int(NUM_TRANSACTIONS * 0.02): the double product truncated.  The double
\* nearest 0.02 lies above 1/50 by less than 1 part in 10^15, so the product
\* rounds to n / 50 or just above it and truncates to floor(n * 2 / 100).
duplicate_count(n) == (n * 2) \div 100

\* str(x) of the float amount, given in cents: the shortest decimal
repr_float(c) ==
    LET a    == IF c < 0 THEN 0 - c ELSE c
        frac == a % 100
    IN  (IF c < 0 THEN "-" ELSE "") \o str(a \div 100) \o "."
        \o (IF frac % 10 = 0 THEN str(frac \div 10) ELSE zfill(str(frac), 2))

\* The row csv.DictWriter writes for a record: its fields in fieldnames order
Row(r) ==
    [k \in 1..Len(fieldnames) |->
        IF fieldnames[k] = "amount" THEN repr_float(r.amount) ELSE r[fieldnames[k]]]

\* Rows written newest record first
Rows_newest_first(seq) == [k \in 1..Len(seq) |-> Row(seq[Len(seq) + 1 - k])]

\* The rows writer.writerows writes for a sequence of records, in its order
Rows(seq) == [k \in 1..Len(seq) |-> Row(seq[k])]

NoCall ==
    /\ call = [fn |-> "none"]
    /\ ret = [done |-> FALSE]

Init ==
    /\ pc = "main"
    /\ NUM_TRANSACTIONS \in 0..MaxN
    /\ now \in StartTimes
    /\ rng \in {SeedState(k) : k \in 0..MaxSeed}
    /\ base_date = NoDate
    /\ transactions = <<>>
    /\ i = 0
    /\ num_duplicates = 0
    /\ picks = <<>>
    /\ file = "absent"
    /\ output = <<>>
    /\ failed_at = "none"
    /\ NoCall

\* An exception raised at step leaves the run: nothing in __main__ catches it
Raise(step) ==
    /\ pc' = "failed"
    /\ failed_at' = step

\* __main__: os.makedirs('../data/raw', exist_ok=True)
Makedirs ==
    /\ pc = "main"
    /\ \/ pc' = "generate" /\ UNCHANGED failed_at
       \/ Raise("makedirs")
    /\ UNCHANGED <<NUM_TRANSACTIONS, now, rng, base_date, transactions, i,
                   num_duplicates, picks, file, output, call, ret>>

\* generate_transactions, lines 151-154
Start ==
    /\ pc = "generate"
    /\ base_date' = now
    /\ transactions' = <<>>
    /\ i' = 1
    /\ pc' = "gen_loop"
    /\ UNCHANGED <<NUM_TRANSACTIONS, now, rng, num_duplicates, picks, file,
                   output, failed_at, call, ret>>

\* One iteration of the generation loop, lines 156-165
GenLoop ==
    /\ pc = "gen_loop"
    /\ i <= NUM_TRANSACTIONS
    /\ LET d == FactoryDraws(rng)
           transaction ==
               IF should_create_invalid_record(InvalidDraw(rng))
               THEN create_invalid_transaction(i, base_date, now, d)
               ELSE create_valid_transaction(i, base_date, now, d)
       IN  transactions' = Append(transactions, transaction)
    /\ i' = i + 1
    /\ rng' = RngAt(rng, 15)
    /\ now' = Advance(now, StepUsec)
    /\ UNCHANGED <<pc, NUM_TRANSACTIONS, base_date, num_duplicates, picks, file,
                   output, failed_at, call, ret>>

\* The generation loop ends; line 168
EndGen ==
    /\ pc = "gen_loop"
    /\ i > NUM_TRANSACTIONS
    /\ num_duplicates' = duplicate_count(NUM_TRANSACTIONS)
    /\ pc' = "dup_loop"
    /\ UNCHANGED <<NUM_TRANSACTIONS, now, rng, base_date, transactions, i, picks,
                   file, output, failed_at, call, ret>>

\* The positions random.choice(seq) may return
choice_positions(seq) == 1..Len(seq)

\* The positions the model follows it to: the first and the last PickEdge of
\* the n generated records, and every duplicate appended so far
PickSamples(seq, n) ==
    {j \in choice_positions(seq) : j <= PickEdge \/ j > n - PickEdge}

\* A copy that is given an identifier of its own
copy_with_new_id(r) == [r EXCEPT !.transaction_id = r.transaction_id \o "D"]

\* dict.copy(): a new record with the same nine values
copy(r) == [f \in DOMAIN r |-> r[f]]

\* A duplicate loop that appends every copy twice
DupLoop_appends_twice ==
    /\ pc = "dup_loop"
    /\ Len(picks) < num_duplicates
    /\ transactions # <<>>
    /\ \E j \in PickSamples(transactions, NUM_TRANSACTIONS) :
          LET duplicate == copy(transactions[j])
          IN  /\ transactions' = Append(Append(transactions, duplicate), duplicate)
              /\ picks' = Append(picks, j)
    /\ UNCHANGED <<pc, NUM_TRANSACTIONS, now, rng, base_date, i, num_duplicates,
                   file, output, failed_at, call, ret>>

\* One iteration of the duplicate loop, lines 169-171; random.choice raises
\* IndexError on an empty sequence
DupLoop ==
    /\ pc = "dup_loop"
    /\ Len(picks) < num_duplicates
    /\ IF transactions = <<>>
       THEN /\ Raise("random.choice")
            /\ UNCHANGED <<transactions, picks>>
       ELSE /\ \E j \in PickSamples(transactions, NUM_TRANSACTIONS) :
                  LET duplicate == copy(transactions[j])
                  IN  /\ transactions' = Append(transactions, duplicate)
                      /\ picks' = Append(picks, j)
            /\ UNCHANGED <<pc, failed_at>>
    /\ UNCHANGED <<NUM_TRANSACTIONS, now, rng, base_date, i, num_duplicates,
                   file, output, call, ret>>

\* The duplicate loop ends; lines 173-176
EndDup ==
    /\ pc = "dup_loop"
    /\ Len(picks) = num_duplicates
    /\ pc' = "open"
    /\ UNCHANGED <<NUM_TRANSACTIONS, now, rng, base_date, transactions, i,
                   num_duplicates, picks, file, output, failed_at, call, ret>>

\* open(OUTPUT_FILE, 'w', ...), line 177
OpenFile ==
    /\ pc = "open"
    /\ \/ /\ file' = "open"
          /\ output' = <<>>
          /\ pc' = "header"
          /\ UNCHANGED failed_at
       \/ /\ Raise("open")
          /\ UNCHANGED <<file, output>>
    /\ UNCHANGED <<NUM_TRANSACTIONS, now, rng, base_date, transactions, i,
                   num_duplicates, picks, call, ret>>

\* writer.writeheader(), line 182; on an exception the with block closes the file
WriteHeader ==
    /\ pc = "header"
    /\ \/ /\ output' = Append(output, fieldnames)
          /\ pc' = "rows"
          /\ UNCHANGED <<file, failed_at>>
       \/ /\ Raise("writeheader")
          /\ file' = "closed"
          /\ UNCHANGED output
    /\ UNCHANGED <<NUM_TRANSACTIONS, now, rng, base_date, transactions, i,
                   num_duplicates, picks, call, ret>>

\* The numbers of rows written before writer.writerows fails on the next of n
FailPoints(n) == {k \in {0, n \div 2, n - 1} : 0 <= k /\ k < n}

\* writer.writerows(transactions), line 183
WriteRows ==
    /\ pc = "rows"
    /\ \/ /\ output' = output \o Rows(transactions)
          /\ pc' = "close"
          /\ UNCHANGED <<file, failed_at>>
       \/ \E k \in FailPoints(Len(transactions)) :
             /\ output' = output \o Rows(SubSeq(transactions, 1, k))
             /\ Raise("writerows")
             /\ file' = "closed"
    /\ UNCHANGED <<NUM_TRANSACTIONS, now, rng, base_date, transactions, i,
                   num_duplicates, picks, call, ret>>

\* The with block ends, lines 183-185: the file is flushed and closed
CloseFile ==
    /\ pc = "close"
    /\ file' = "closed"
    /\ \/ pc' = "success" /\ UNCHANGED failed_at
       \/ Raise("close")
    /\ UNCHANGED <<NUM_TRANSACTIONS, now, rng, base_date, transactions, i,
                   num_duplicates, picks, output, call, ret>>

\* The statistics and 'Done!', lines 186-208
Finish ==
    /\ pc = "success"
    /\ pc' = "done"
    /\ UNCHANGED <<NUM_TRANSACTIONS, now, rng, base_date, transactions, i,
                   num_duplicates, picks, file, output, failed_at, call, ret>>

Next ==
    \/ Makedirs \/ Start \/ GenLoop \/ EndGen \/ DupLoop \/ EndDup
    \/ OpenFile \/ WriteHeader \/ WriteRows \/ CloseFile \/ Finish

Spec == Init /\ [][Next]_vars

(***************************************************************************)
(* What a consumer of the records reads back                               *)
(***************************************************************************)
Digit(c) == CHOOSE k \in 0..9 : str(k) = c

RECURSIVE int(_)
int(s) ==
    IF Len(s) = 0 THEN 0
    ELSE int(SubSeq(s, 1, Len(s) - 1)) * 10 + Digit(SubSeq(s, Len(s), Len(s)))

\* datetime.strptime(s, '%Y-%m-%d %H:%M:%S')
strptime(s) ==
    [day  |-> days_from_civil(int(SubSeq(s, 1, 4)), int(SubSeq(s, 6, 7)),
                              int(SubSeq(s, 9, 10))),
     sec  |-> int(SubSeq(s, 12, 13)) * 3600 + int(SubSeq(s, 15, 16)) * 60
              + int(SubSeq(s, 18, 19)),
     usec |-> 0]

\* a <= b on datetimes
DtLeq(a, b) ==
    \/ a.day < b.day
    \/ a.day = b.day /\ a.sec < b.sec
    \/ a.day = b.day /\ a.sec = b.sec /\ a.usec <= b.usec

IsValidCurrency(c) == \E k \in 1..Len(CURRENCIES) : CURRENCIES[k] = c

\* The validity invariants a record r generated against base moment b breaks
Violations(r, b) ==
    {v \in {"transaction_id", "amount", "timestamp", "currency", "account_id"} :
        \/ v = "transaction_id" /\ r.transaction_id = ""
        \/ v = "amount" /\ ~(r.amount > 0)
        \/ v = "timestamp" /\ ~DtLeq(strptime(r.timestamp), b)
        \/ v = "currency" /\ ~IsValidCurrency(r.currency)
        \/ v = "account_id" /\ r.account_id = ""}

Returned(fn) == call.fn = fn /\ ret.done

(***************************************************************************)
(* Claims about single calls, checked under SpecCall                       *)
(***************************************************************************)

\* C1: every record create_valid_transaction returns has amount > 0, a currency
\* of CURRENCIES, a non-empty transaction_id, a non-empty account_id and a
\* timestamp that is not after the base moment.
C1_ValidRecordSatisfiesAll ==
    Returned("create_valid_transaction") =>
        /\ ret.val.amount > 0
        /\ IsValidCurrency(ret.val.currency)
        /\ ret.val.transaction_id # ""
        /\ ret.val.account_id # ""
        /\ DtLeq(strptime(ret.val.timestamp), call.base)

\* A valid record at the edge of every invariant: no offset from the base
\* moment (which has microseconds) and the least amount, 10.00.
C1_Witness ==
    /\ Returned("create_valid_transaction")
    /\ call.d.days = 0 /\ call.d.hours = 0 /\ call.d.minutes = 0 /\ call.d.seconds = 0
    /\ call.base.usec > 0
    /\ ret.val.amount = 1000

\* The field a fault kind empties, negates, moves or replaces
FaultTarget(invalid_type) ==
    CASE invalid_type = "missing_id"       -> "transaction_id"
      [] invalid_type = "negative_amount"  -> "amount"
      [] invalid_type = "future_date"      -> "timestamp"
      [] invalid_type = "invalid_currency" -> "currency"
      [] invalid_type = "missing_account"  -> "account_id"

\* C2: a record of create_invalid_transaction breaks the one invariant its fault
\* kind targets, in the way that kind prescribes, and no other.
C2_ExactlyOneFault ==
    Returned("create_invalid_transaction") =>
        LET invalid_type == INVALID_TYPES[call.d.kind]
            r == ret.val
        IN  /\ Violations(r, call.base) = {FaultTarget(invalid_type)}
            /\ invalid_type = "missing_id" => r.transaction_id = ""
            /\ invalid_type = "negative_amount" => r.amount < 0
            /\ invalid_type = "future_date" =>
                   ~DtLeq(strptime(r.timestamp), call.base)
            /\ invalid_type = "invalid_currency" => ~IsValidCurrency(r.currency)
            /\ invalid_type = "missing_account" => r.account_id = ""

\* A future_date record one day ahead of a base moment that falls in the last
\* microsecond of its day, with the largest lookback draws left unused.
C2_Witness ==
    /\ Returned("create_invalid_transaction")
    /\ INVALID_TYPES[call.d.kind] = "future_date"
    /\ call.d.fut = 1
    /\ call.base.sec = SecondsPerDay - 1
    /\ call.d.days = DaysBack
    /\ Violations(ret.val, call.base) = {"timestamp"}

\* C9 (as claimed): the timestamp of generate_timestamp(base_date, days_back)
\* is no earlier than base_date - days_back days and no later than base_date.
C9_WithinLookbackWindow ==
    Returned("generate_timestamp") =>
        LET t == strptime(ret.val)
        IN  /\ DtLeq(DtSub(call.base, timedelta(call.days_back, 0, 0, 0)), t)
            /\ DtLeq(t, call.base)

\* u < tenths / 10 for the tier draw of numerator rand
TierBelow(rand, tenths) == rand * 10 < tenths * RandRes

\* The tier of an amount of c cents, given the tier draw: closed at both ends
InTierClosed(rand, c) ==
    /\ TierBelow(rand, 7) => 1000 <= c /\ c <= 100000
    /\ ~TierBelow(rand, 7) /\ TierBelow(rand, 9) => 100000 <= c /\ c <= 1000000
    /\ ~TierBelow(rand, 9) => 1000000 <= c /\ c <= 10000000

\* The same, open at the upper end
InTierHalfOpen(rand, c) ==
    /\ TierBelow(rand, 7) => 1000 <= c /\ c < 100000
    /\ ~TierBelow(rand, 7) /\ TierBelow(rand, 9) => 100000 <= c /\ c < 1000000
    /\ ~TierBelow(rand, 9) => 1000000 <= c /\ c < 10000000

IsNegativeAmountCall ==
    /\ Returned("create_invalid_transaction")
    /\ INVALID_TYPES[call.d.kind] = "negative_amount"

\* C10 (as claimed): generate_amount returns a value in the half-open range of
\* the tier its first draw selects, and the negative_amount fault the negation
\* of such a value.
C10_HalfOpenTiers ==
    /\ Returned("generate_amount") => InTierHalfOpen(call.d.rand, ret.val)
    /\ IsNegativeAmountCall => InTierHalfOpen(call.d.rand, 0 - ret.val.amount)

\* C10 (amended): the value lies in the closed range of the tier, the upper end
\* being reached when round(..., 2) rounds up.
C10_ClosedTiers ==
    /\ Returned("generate_amount") => InTierClosed(call.d.rand, ret.val)
    /\ IsNegativeAmountCall => InTierClosed(call.d.rand, 0 - ret.val.amount)

\* The middle tier returns its upper end, 10000.00
C10_Witness ==
    /\ Returned("generate_amount")
    /\ ~TierBelow(call.d.rand, 7) /\ TierBelow(call.d.rand, 9)
    /\ ret.val = 1000000

(***************************************************************************)
(* Claims about the run, checked under Spec                                *)
(***************************************************************************)
\* The steps after the duplicate loop, and the failures they can end in
WriteSteps == {"open", "header", "rows", "close", "success", "done"}

WriteFailures == {"open", "writeheader", "writerows", "close"}

Assembled == pc \in WriteSteps \/ (pc = "failed" /\ failed_at \in WriteFailures)

\* float(s) of a written amount, in cents
parse_float(s) ==
    LET neg  == Len(s) > 0 /\ SubSeq(s, 1, 1) = "-"
        body == IF neg THEN SubSeq(s, 2, Len(s)) ELSE s
        dot  == CHOOSE k \in 1..Len(body) : SubSeq(body, k, k) = "."
        frac == SubSeq(body, dot + 1, Len(body))
        c    == int(SubSeq(body, 1, dot - 1)) * 100
                + (IF Len(frac) = 1 THEN int(frac) * 10 ELSE int(frac))
    IN  IF neg THEN 0 - c ELSE c

\* C3: once the sequence is assembled it holds NUM_TRANSACTIONS + D records,
\* D = floor(NUM_TRANSACTIONS / 50), whatever the draws were.
C3_LengthIsNPlusD ==
    Assembled =>
        /\ num_duplicates = NUM_TRANSACTIONS \div 50
        /\ Len(transactions) = NUM_TRANSACTIONS + NUM_TRANSACTIONS \div 50

\* 99 records, several of them faulted, and the single duplicate they earn
C3_Witness ==
    /\ pc = "open"
    /\ NUM_TRANSACTIONS = 99
    /\ Len(transactions) = 100
    /\ \E k \in 1..99 : transactions[k].transaction_id = ""

\* Every record past the first NUM_TRANSACTIONS equals one of the first
\* NUM_TRANSACTIONS in all nine fields
DuplicatesAreCopies ==
    pc \in {"dup_loop"} \cup WriteSteps \cup {"failed"} =>
        \A k \in (NUM_TRANSACTIONS + 1)..Len(transactions) :
            \E j \in 1..NUM_TRANSACTIONS :
                /\ DOMAIN transactions[k] = DOMAIN transactions[j]
                /\ \A f \in DOMAIN transactions[k] :
                       transactions[k][f] = transactions[j][f]

\* A step keeps every record where it is and as it is
EarlierRecordsKept ==
    /\ Len(transactions') >= Len(transactions)
    /\ \A k \in 1..Len(transactions) : transactions'[k] = transactions[k]

\* C4: each appended duplicate equals, field by field and identifier included,
\* one of the generated records, and no step changes, moves or removes a record
\* that is already in the sequence.
C4_DuplicatesCopyAndKeep == []DuplicatesAreCopies /\ [][EarlierRecordsKept]_vars

\* The second duplicate is a copy of the first, and carries the identifier of
\* the generated record that one was copied from
C4_Witness ==
    /\ pc = "open"
    /\ Len(picks) = 2
    /\ picks[2] = NUM_TRANSACTIONS + 1
    /\ transactions[NUM_TRANSACTIONS + 2].transaction_id # ""
    /\ transactions[NUM_TRANSACTIONS + 2].transaction_id
           = transactions[picks[1]].transaction_id

\* The generated records: the first NUM_TRANSACTIONS of the sequence
Generated ==
    IF Len(transactions) < NUM_TRANSACTIONS
    THEN 1..Len(transactions)
    ELSE 1..NUM_TRANSACTIONS

\* C5: during the generation loop and the duplicate loop, two generated records
\* at different positions that both have an identifier have different
\* identifiers, whatever dates the identifiers were made on.
C5_IdentifiersDistinct ==
    pc \in {"gen_loop", "dup_loop"} =>
        \A a \in Generated : \A b \in Generated :
            (a < b /\ transactions[a].transaction_id # ""
                   /\ transactions[b].transaction_id # "")
                => transactions[a].transaction_id # transactions[b].transaction_id

\* All records generated, the date read by the first call differing from the
\* date read by the last, and two records without an identifier
C5_Witness ==
    /\ pc = "gen_loop"
    /\ i > NUM_TRANSACTIONS
    /\ NUM_TRANSACTIONS >= 50
    /\ transactions[1].transaction_id # ""
    /\ transactions[NUM_TRANSACTIONS].transaction_id # ""
    /\ SubSeq(transactions[1].transaction_id, 4, 11)
           # SubSeq(transactions[NUM_TRANSACTIONS].transaction_id, 4, 11)
    /\ \E a, b \in 1..NUM_TRANSACTIONS :
          a # b /\ transactions[a].transaction_id = ""
                /\ transactions[b].transaction_id = ""

\* Data row k of the output is record k of the sequence
RowIsRecord(k) ==
    LET row == output[k + 1]
        r   == transactions[k]
    IN  /\ Len(row) = 9
        /\ row[1] = r.transaction_id
        /\ row[2] = r.account_id
        /\ row[3] = r.timestamp
        /\ parse_float(row[4]) = r.amount
        /\ row[5] = r.currency
        /\ row[6] = r.type
        /\ row[7] = r.category
        /\ row[8] = r.description
        /\ row[9] = r.status

\* C6: nothing is written, the header included, before all generated records
\* and all duplicates are in the sequence; a run that succeeds has written the
\* header of nine names and then one row per record, in the order of the
\* sequence, so that row k <= NUM_TRANSACTIONS is the record of index k.
C6_LinearPipeline ==
    /\ (file # "absent" \/ output # <<>>) =>
           /\ Assembled
           /\ Len(transactions) = NUM_TRANSACTIONS + NUM_TRANSACTIONS \div 50
    /\ pc \in {"success", "done"} =>
           /\ Len(output) = 1 + NUM_TRANSACTIONS + NUM_TRANSACTIONS \div 50
           /\ output[1] = <<"transaction_id", "account_id", "timestamp", "amount",
                            "currency", "type", "category", "description", "status">>
           /\ \A k \in 1..Len(transactions) : RowIsRecord(k)
           /\ \A k \in 1..NUM_TRANSACTIONS :
                  \/ output[k + 1][1] = ""
                  \/ int(SubSeq(output[k + 1][1], 12, Len(output[k + 1][1]))) = k

\* A finished run of 100 records and 2 duplicates that wrote a negative amount
C6_Witness ==
    /\ pc = "done"
    /\ NUM_TRANSACTIONS = 100
    /\ Len(output) = 103
    /\ \E k \in 1..100 : transactions[k].amount < 0

\* A failure is a failure of the destination, it leaves what was written as it
\* is, and a run that failed did not complete
FailureIsOfDestination ==
    /\ pc = "failed" <=> failed_at # "none"
    /\ pc = "failed" => failed_at \in {"makedirs"} \cup WriteFailures
    /\ pc = "failed" => Len(output) < 1 + Len(transactions) \/ failed_at = "close"

\* C7: generation and duplicate injection never fail; a failure of the
\* destination ends the run where it stands: no step follows it, so nothing is
\* retried, written or repaired, and the run does not complete.
C7_OnlyWriteFails == []FailureIsOfDestination /\ [][pc # "failed"]_vars

\* writerows failed part of the way: the header and some rows stay written
C7_Witness ==
    /\ pc = "failed"
    /\ failed_at = "writerows"
    /\ Len(output) > 1
    /\ Len(output) < 1 + Len(transactions)
    /\ file = "closed"

\* C8 (as claimed): every duplicate is copied from one of the positions
\* 1..NUM_TRANSACTIONS.
C8_PoolIsGeneratedRecords ==
    \A k \in 1..Len(picks) : picks[k] \in 1..NUM_TRANSACTIONS

\* C8 (amended): the k-th duplicate is copied from one of the positions
\* 1..NUM_TRANSACTIONS + k - 1: the generated records and the duplicates
\* appended before it.
C8_PoolIsSequenceSoFar ==
    \A k \in 1..Len(picks) : picks[k] \in 1..(NUM_TRANSACTIONS + k - 1)

\* The second duplicate is copied from the position of the first
C8_Witness ==
    /\ Len(picks) = 2
    /\ picks[1] <= NUM_TRANSACTIONS
    /\ picks[2] = NUM_TRANSACTIONS + 1

====
